---- MODULE Spec2Model ----
(***************************************************************************)
(* Model of ddtrace/contrib/httplib/patch.py: the five wrappers installed  *)
(* on httplib.HTTPConnection (__init__, request, putrequest, putheader,    *)
(* getresponse), should_skip_request, and patch()/unpatch().               *)
(*                                                                         *)
(* A call on a connection is one atomic action.  The wrapped library       *)
(* method is external: whether it returns or raises is an input of the     *)
(* action.  HTTPConnection.request() calls self.putrequest(),              *)
(* self.putheader() and then sends, so a request() action runs the         *)
(* putrequest and putheader wrappers inside the request wrapper.           *)
(***************************************************************************)
EXTENDS Integers, Sequences, FiniteSets, TLC

\* ---------------------------------------------------------------- bounds
MaxSpans == 2      \* spans the tracer hands out in one behaviour
MaxFinish == 2     \* finish() invocations counted on one span
MaxFaults == 1     \* calls of one behaviour in which an instrumentation step raises
MaxPathLen == 3    \* characters of the path given to putrequest()
NumThreads == 2    \* threads that call patch() and unpatch()
MaxDepth == 2      \* wrapper layers counted on one method under concurrent patch()

\* ------------------------------------------------------------- constants
Methods == {"__init__", "getresponse", "request", "putrequest", "putheader"}

\* pin.tracer.writer.api of the tracer: the agent the tracer reports to
api == [hostname |-> "localhost", port |-> 8126]

Hosts == {"localhost", "example.com"}
Ports == {80, 8126}
Statuses == {200, 500}

\* "on": an enabled Pin, "off": a Pin whose tracer is disabled, "none": no Pin
Pins == {"none", "on", "off"}

\* Instrumentation steps that may raise inside a wrapper
NoFault == {"none"}
Faults == {"none", "skip", "trace", "inject", "tag", "store", "finish"}

\* How the caller of request() passes headers: args[3], kwargs or not at all
Shapes == {"positional", "keyword", "absent"}

VARIABLES
    patched,   \* httplib.__datadog_patch
    wrapped,   \* per method: how many FunctionWrapper layers are installed
    conn,      \* the connection object: created, pin, config, host, port, _datadog_span
    spans,     \* every span the tracer has started, in order of creation
    last,      \* what the last call did and what its caller observed
    faults,    \* calls so far in which an instrumentation step raised
    url,       \* a putrequest() whose tags are looked at: its inputs and its tags
    threads,   \* per thread: where it stands inside patch() or unpatch()
    overlap    \* history: a patch()/unpatch() began while another was in progress

\* the variables that calls on the connection, patch() and unpatch() leave alone
aux == <<url, threads, overlap>>

vars == <<patched, wrapped, conn, spans, last, faults, url, threads, overlap>>

\* -------------------------------------------------------------- Span
\* raised is history: a wrapped call raised while this span was attached
Span == [fin |-> 0, error |-> 0, status |-> 0, raised |-> FALSE]

\* span.finish()
finish(s, i) == [s EXCEPT !.spans[i].fin = @ + 1]

\* span.set_exc_info(*exc_info): records the exception, which sets the error flag
set_exc_info(s, i) == [s EXCEPT !.spans[i].error = 1]

\* History only: the wrapped call raised while span i was attached
NoteRaise(s) ==
    IF s.attr = 0 THEN s ELSE [s EXCEPT !.spans[s.attr].raised = TRUE]

\* pin.tracer.trace(span_name, ...) followed by setattr(instance, '_datadog_span', span)
trace(s) ==
    [s EXCEPT !.spans = Append(@, Span), !.attr = Len(s.spans) + 1]

\* ---------------------------------------------------- should_skip_request
\* should_skip_request without `not pin.enabled()`
should_skip_request_enabled(k) ==
    IF k.pin = "none" THEN TRUE
    ELSE k.host = api.hostname /\ k.port = api.port

should_skip_request(k) ==
    IF k.pin # "on" THEN TRUE
    ELSE k.host = api.hostname /\ k.port = api.port

\* ------------------------------------------------------ the running call
(* A call in progress is a record:                                         *)
(*   spans, attr   the tracer's spans and instance._datadog_span (0: none) *)
(*   top           the method the caller invoked                           *)
(*   res, status   how the innermost call made so far ended: "ok",         *)
(*                 "raise" (the library raised), "instr" (an               *)
(*                 instrumentation step raised); the response status       *)
(*   inv, fres     how often the original method `top` ran, and its result *)
(*   args, fwd     the headers argument as it is passed down, and as the   *)
(*                 original request() received it                          *)
(*   late          history: a wrapper used the attached span after its     *)
(*                 finish()                                                *)
Begin(m, shape) ==
    [spans |-> spans, attr |-> conn.span, top |-> m, res |-> "none",
     status |-> 0, inv |-> 0, fres |-> "none", late |-> FALSE,
     args |-> [shape |-> shape, inj |-> 0], fwd |-> [shape |-> "none", inj |-> 0]]

\* The original library method m ends with `out`
Orig(m, s, out) ==
    IF s.top = m
    THEN [s EXCEPT !.res = out, !.inv = @ + 1, !.fres = out]
    ELSE [s EXCEPT !.res = out]

\* History only: a wrapper takes the attached span to tag it, store headers
\* on it or set its error; late records that finish() had been called on it
Touch(s) ==
    IF s.attr # 0 /\ s.spans[s.attr].fin > 0 THEN [s EXCEPT !.late = TRUE] ELSE s

\* An instrumentation step raises out of the wrapper
Escape(s) == [s EXCEPT !.res = "instr"]

\* `span = getattr(instance, "_datadog_span", None); if span: span.finish()`
\* of the two `except Exception` handlers that follow a try block
FinishAttached(s, in) ==
    IF s.attr = 0 THEN s
    ELSE IF in.fault = "finish" THEN Escape(s)
    ELSE finish(s, s.attr)

\* The handler around func(): set_exc_info, finish, re-raise
OnRaise(s, in) ==
    IF s.attr = 0 THEN s
    ELSE IF in.fault = "finish" THEN Escape(set_exc_info(Touch(s), s.attr))
    ELSE finish(set_exc_info(Touch(s), s.attr), s.attr)

\* ------------------------------------------------------------- putheader
HTTPConnection_putheader(s, in) == Orig("putheader", s, in.hout)

RECURSIVE _wrap_putheader(_, _, _, _)
_wrap_putheader(d, s, k, in) ==
    LET func(t) == IF d = 1 THEN HTTPConnection_putheader(t, in)
                   ELSE _wrap_putheader(d - 1, t, k, in)
    IN  IF s.attr # 0 /\ in.fault = "store"
        THEN Escape(s)            \* store_request_headers raises, outside any try
        ELSE func(Touch(s))

\* ------------------------------------------------------------ putrequest
HTTPConnection_putrequest(s, in) == Orig("putrequest", s, in.pout)

RECURSIVE _wrap_putrequest(_, _, _, _)
_wrap_putrequest(d, s, k, in) ==
    LET func(t) == IF d = 1 THEN HTTPConnection_putrequest(t, in)
                   ELSE _wrap_putrequest(d - 1, t, k, in)
        \* lines 103-140: the try block; ok says whether it ran to its end
        try == IF s.attr # 0
               THEN [ok |-> in.fault # "tag", s |-> Touch(s)]
               ELSE IF in.fault = "trace"
                    THEN [ok |-> FALSE, s |-> s]
                    ELSE [ok |-> in.fault # "tag", s |-> trace(s)]
        \* lines 141-147: the handler finishes the attached span
        s1 == IF try.ok THEN try.s ELSE FinishAttached(try.s, in)
        s2 == func(s1)
    IN  IF k.pin = "on" /\ in.fault = "skip"
        THEN Escape(s)            \* should_skip_request raises, outside any try
        ELSE IF should_skip_request(k) THEN func(s)
        ELSE IF s1.res = "instr" THEN s1
        ELSE IF s2.res = "raise" THEN OnRaise(NoteRaise(s2), in)
        ELSE IF s2.res = "instr" THEN OnRaise(s2, in)
        ELSE s2
\* Dispatch through the class attribute: w layers of wrapper, or the original
CallPutrequest(s, k, in) ==
    IF wrapped["putrequest"] = 0 THEN HTTPConnection_putrequest(s, in)
    ELSE _wrap_putrequest(wrapped["putrequest"], s, k, in)

CallPutheader(s, k, in) ==
    IF wrapped["putheader"] = 0 THEN HTTPConnection_putheader(s, in)
    ELSE _wrap_putheader(wrapped["putheader"], s, k, in)

\* --------------------------------------------------------------- request
\* HTTPConnection.request(): self.putrequest(), self.putheader() per header,
\* then endheaders() sends; an exception of any step ends the call
HTTPConnection_request(s, k, in) ==
    LET s0 == [s EXCEPT !.fwd = s.args]
        s1 == CallPutrequest(s0, k, in)
        s2 == IF in.nhdr = 0 THEN s1 ELSE CallPutheader(s1, k, in)
    IN  IF s1.res # "ok" THEN Orig("request", s1, s1.res)
        ELSE IF s2.res # "ok" THEN Orig("request", s2, s2.res)
        ELSE Orig("request", s2, in.sout)

\* propagator.inject(span.context, headers): headers is args[3] when given
\* positionally, else kwargs.setdefault('headers', {})
\* inject into a copy of the headers, which the wrapped request never sees
inject_copy(s) == s

inject(s) ==
    [s EXCEPT !.args = [shape |-> IF s.args.shape = "positional"
                                  THEN "positional" ELSE "keyword",
                        inj |-> s.attr]]

RECURSIVE _wrap_request(_, _, _, _)
_wrap_request(d, s, k, in) ==
    LET func(t) == IF d = 1 THEN HTTPConnection_request(t, k, in)
                   ELSE _wrap_request(d - 1, t, k, in)
        \* lines 67-79: the try block
        try == IF in.fault = "trace"
               THEN [ok |-> FALSE, s |-> s]
               ELSE IF ~k.dist THEN [ok |-> TRUE, s |-> trace(s)]
               ELSE IF in.fault = "inject"
                    THEN [ok |-> FALSE, s |-> trace(s)]
                    ELSE [ok |-> TRUE, s |-> inject(trace(s))]
        \* lines 80-84
        s1 == IF try.ok THEN try.s ELSE FinishAttached(try.s, in)
        s2 == func(s1)
    IN  IF k.pin = "on" /\ in.fault = "skip"
        THEN Escape(s)
        ELSE IF should_skip_request(k) THEN func(s)
        ELSE IF s1.res = "instr" THEN s1
        ELSE IF s2.res = "raise" THEN OnRaise(NoteRaise(s2), in)
        ELSE IF s2.res = "instr" THEN OnRaise(s2, in)
        ELSE s2

\* ----------------------------------------------------------- getresponse
HTTPConnection_getresponse(s, in) ==
    [Orig("getresponse", s, in.gout) EXCEPT
        !.status = IF in.gout = "ok" THEN in.status ELSE 0]

\* lines 44-56: the finally block, itself inside try/except Exception
getresponse_finally(s, in) ==
    LET i == s.attr
        t == Touch(s)
        tagged == [t EXCEPT !.spans[i].status = s.status,
                            !.spans[i].error = IF 500 <= s.status THEN 1 ELSE 0]
        s1 == IF s.res = "ok" THEN tagged ELSE t
    IN  IF i = 0 THEN s
        ELSE IF s.res = "ok" /\ in.fault = "tag" THEN t
        ELSE IF s.res = "ok" /\ in.fault = "store" THEN s1
        ELSE IF in.fault = "finish" THEN s1
        ELSE [finish(s1, i) EXCEPT !.attr = 0]

RECURSIVE _wrap_getresponse(_, _, _, _)
_wrap_getresponse(d, s, k, in) ==
    LET func(t) == IF d = 1 THEN HTTPConnection_getresponse(t, in)
                   ELSE _wrap_getresponse(d - 1, t, k, in)
        s1 == func(s)
    IN  IF k.pin # "on" THEN s1
        ELSE getresponse_finally(IF s1.res = "raise" THEN NoteRaise(s1) ELSE s1, in)

\* ---------------------------------------------------------------- __init__
\* Pin(app='httplib', service=None, _config=config.httplib).onto(instance)
_wrap_init(k, dist) == [k EXCEPT !.pin = "on", !.dist = dist]

\* HTTPConnection.__init__(host, port)
HTTPConnection_init(k, host, port) ==
    [k EXCEPT !.created = TRUE, !.host = host, !.port = port]
\* -------------------------------------------------------- patch / unpatch
\* wrapt.FunctionWrapper(httplib.HTTPConnection.m, wrapper) set as attribute m
wrap(w, m) == [w EXCEPT ![m] = @ + 1]

\* ddtrace.utils.wrappers.unwrap: restore __wrapped__ if the attribute is a proxy
unwrap(w, m) == IF w[m] > 0 THEN [w EXCEPT ![m] = @ - 1] ELSE w

\* patch() without its __datadog_patch check
patch_unguarded(p) ==
    [patched |-> TRUE,
     wrapped |-> wrap(wrap(wrap(wrap(wrap(p.wrapped, "__init__"),
                 "getresponse"), "request"), "putrequest"), "putheader")]

patch(p) ==
    IF p.patched THEN p
    ELSE [patched |-> TRUE,
          wrapped |-> wrap(wrap(wrap(wrap(wrap(p.wrapped, "__init__"),
                      "getresponse"), "request"), "putrequest"), "putheader")]

\* unpatch() that leaves request wrapped
unpatch_partial(p) ==
    IF ~p.patched THEN p
    ELSE [patched |-> FALSE,
          wrapped |-> unwrap(unwrap(unwrap(unwrap(p.wrapped, "__init__"),
                      "getresponse"), "putrequest"), "putheader")]

unpatch(p) ==
    IF ~p.patched THEN p
    ELSE [patched |-> FALSE,
          wrapped |-> unwrap(unwrap(unwrap(unwrap(unwrap(p.wrapped, "__init__"),
                      "getresponse"), "request"), "putrequest"), "putheader")]

\* ------------------------------------------------------------------ state
Threads == 1..NumThreads

\* a thread outside patch() and unpatch(); i: the method statement it is at
Idle == [pc |-> "idle", i |-> 0]

NoUrl == [scheme |-> "http", host |-> "example.com", port |-> 80, path |-> <<>>,
          tqs |-> FALSE, done |-> FALSE, tags |-> <<>>]

NoConn == [created |-> FALSE, pin |-> "none", dist |-> FALSE,
           host |-> "example.com", port |-> 80, span |-> 0]

Quiet(op) ==
    [op |-> op, res |-> "none", fres |-> "none", inv |-> 0, new |-> 0,
     pre |-> 0, shape |-> "none", late |-> FALSE,
     fwd |-> [shape |-> "none", inj |-> 0]]

Init ==
    /\ patched = FALSE
    /\ wrapped = [m \in Methods |-> 0]
    /\ conn = NoConn
    /\ spans = <<>>
    /\ last = Quiet("start")
    /\ faults = 0
    /\ url = NoUrl
    /\ threads = [t \in Threads |-> Idle]
    /\ overlap = FALSE

\* Inputs of a call: how each library method it reaches ends (pout:
\* putrequest, hout: putheader, sout: the send of request(), gout and status:
\* getresponse), the headers of request() and the instrumentation step that fails
In(pout, hout, sout, gout, status, nhdr, shape, fault) ==
    [pout |-> pout, hout |-> hout, sout |-> sout, gout |-> gout,
     status |-> status, nhdr |-> nhdr, shape |-> shape, fault |-> fault]

Outcomes == {"ok", "raise"}

\* The step that `in` makes fail is one the call reaches: the call ends
\* otherwise than it does with no failing step
Reached(s, ok, in) ==
    in.fault # "none" => (faults < MaxFaults /\ s # ok)

WithinBounds(s) ==
    /\ Len(s.spans) <= MaxSpans
    /\ \A i \in 1..Len(s.spans) : s.spans[i].fin <= MaxFinish

\* The call returns to its caller: the state it leaves and what was observed
Return(op, s, in) ==
    /\ WithinBounds(s)
    /\ faults' = IF in.fault = "none" THEN faults ELSE faults + 1
    /\ spans' = s.spans
    /\ conn' = [conn EXCEPT !.span = s.attr]
    /\ last' = [op |-> op, res |-> s.res, fres |-> s.fres, inv |-> s.inv,
                new |-> Len(s.spans) - Len(spans), pre |-> conn.span,
                shape |-> in.shape, late |-> s.late, fwd |-> s.fwd]
    /\ UNCHANGED <<patched, wrapped, aux>>

\* ---------------------------------------------------------------- actions
Patch ==
    LET p == patch([patched |-> patched, wrapped |-> wrapped])
    IN  /\ patched' = p.patched
        /\ wrapped' = p.wrapped
        /\ last' = [Quiet("patch") EXCEPT
                       !.res = IF p.wrapped = wrapped /\ p.patched = patched
                               THEN "unchanged" ELSE "changed"]
        /\ UNCHANGED <<conn, spans, faults, aux>>

Unpatch ==
    LET p == unpatch([patched |-> patched, wrapped |-> wrapped])
    IN  /\ patched' = p.patched
        /\ wrapped' = p.wrapped
        /\ last' = [Quiet("unpatch") EXCEPT
                       !.res = IF p.wrapped = wrapped /\ p.patched = patched
                               THEN "unchanged" ELSE "changed"]
        /\ UNCHANGED <<conn, spans, faults, aux>>

\* httplib.HTTPConnection(host, port); dist is config.httplib's
\* distributed_tracing at that time
NewConnection ==
    /\ ~conn.created
    /\ \E host \in Hosts, port \in Ports, dist \in BOOLEAN :
         LET k0 == IF wrapped["__init__"] = 0 THEN conn
                   ELSE _wrap_init(conn, dist)
         IN  conn' = HTTPConnection_init(k0, host, port)
    /\ last' = Quiet("__init__")
    /\ UNCHANGED <<patched, wrapped, spans, faults, aux>>

\* Pin(service=..., tracer=...).onto(conn), Pin.override(conn, ...)
PinOnto ==
    /\ conn.created
    /\ \E pin \in {"on", "off"}, dist \in BOOLEAN :
         /\ pin = "off" => ~dist
         /\ conn' = [conn EXCEPT !.pin = pin, !.dist = dist]
    /\ last' = Quiet("pin")
    /\ UNCHANGED <<patched, wrapped, spans, faults, aux>>

Request(F) ==
    /\ conn.created
    /\ \E pout \in Outcomes, sout \in Outcomes, nhdr \in {0, 1},
          shape \in Shapes, fault \in F :
         /\ pout = "raise" => (sout = "ok" /\ nhdr = 0)
         /\ LET in == In(pout, "ok", sout, "ok", 200, nhdr, shape, fault)
                s0 == Begin("request", shape)
                run(i) == IF wrapped["request"] = 0
                          THEN HTTPConnection_request(s0, conn, i)
                          ELSE _wrap_request(wrapped["request"], s0, conn, i)
            IN  /\ Reached(run(in), run([in EXCEPT !.fault = "none"]), in)
                /\ Return("request", run(in), in)

Putrequest(F) ==
    /\ conn.created
    /\ \E pout \in Outcomes, fault \in F :
         LET in == In(pout, "ok", "ok", "ok", 200, 0, "none", fault)
             run(i) == CallPutrequest(Begin("putrequest", "none"), conn, i)
         IN  /\ Reached(run(in), run([in EXCEPT !.fault = "none"]), in)
             /\ Return("putrequest", run(in), in)

Putheader(F) ==
    /\ conn.created
    /\ \E hout \in Outcomes, fault \in F :
         LET in == In("ok", hout, "ok", "ok", 200, 0, "none", fault)
             run(i) == CallPutheader(Begin("putheader", "none"), conn, i)
         IN  /\ Reached(run(in), run([in EXCEPT !.fault = "none"]), in)
             /\ Return("putheader", run(in), in)

Getresponse(F) ==
    /\ conn.created
    /\ \E gout \in Outcomes, status \in Statuses, fault \in F :
         /\ gout = "raise" => status = 200
         /\ LET in == In("ok", "ok", "ok", gout, status, 0, "none", fault)
                s0 == Begin("getresponse", "none")
                run(i) == IF wrapped["getresponse"] = 0
                          THEN HTTPConnection_getresponse(s0, i)
                          ELSE _wrap_getresponse(wrapped["getresponse"], s0, conn, i)
            IN  /\ Reached(run(in), run([in EXCEPT !.fault = "none"]), in)
                /\ Return("getresponse", run(in), in)

Setup == Patch \/ Unpatch \/ NewConnection \/ PinOnto

\* No instrumentation step fails
Next ==
    \/ Setup
    \/ Request(NoFault)
    \/ Putrequest(NoFault)
    \/ Putheader(NoFault)
    \/ Getresponse(NoFault)

Spec == Init /\ [][Next]_vars

\* Any one instrumentation step of a call may raise
FaultNext ==
    \/ Setup
    \/ Request(Faults)
    \/ Putrequest(Faults)
    \/ Putheader(Faults)
    \/ Getresponse(Faults)

FaultSpec == Init /\ [][FaultNext]_vars
\* ------------------------------------------------- putrequest: URL tags
(* Lines 112-134 of _wrap_putrequest as a function of instance.host,       *)
(* instance.port, the connection class (scheme), the path argument and     *)
(* config.httplib.trace_query_string.  A URL is a sequence of tokens: the  *)
(* scheme, the host and the port are one token each, every other character *)
(* is a token.                                                             *)
Chars == {"/", "a", "?", "#", ";"}
Schemes == {"http", "https"}
UrlPorts == {80, 443, 8126}

RECURSIVE SeqsUpTo(_)
SeqsUpTo(n) ==
    IF n = 0 THEN {<<>>}
    ELSE LET shorter == SeqsUpTo(n - 1)
         IN  shorter \cup {Append(q, c) : q \in {x \in shorter : Len(x) = n - 1},
                                            c \in Chars}

Paths == SeqsUpTo(MaxPathLen)

\* str.find: the first index >= from at which q holds a character of cs, or 0
Find(q, cs, from) ==
    LET hits == {i \in from..Len(q) : q[i] \in cs}
    IN  IF hits = {} THEN 0 ELSE CHOOSE i \in hits : \A j \in hits : i <= j

\* str.rfind: the last index at which q holds c, or 0
RFind(q, c) ==
    LET hits == {i \in 1..Len(q) : q[i] = c}
    IN  IF hits = {} THEN 0 ELSE CHOOSE i \in hits : \A j \in hits : i >= j

Before(q, i) == IF i = 0 THEN q ELSE SubSeq(q, 1, i - 1)
After(q, i) == IF i = 0 THEN <<>> ELSE SubSeq(q, i + 1, Len(q))

\* the port is left out for any of the two default ports, whatever the scheme
IsDefaultPort_any(scheme, port) == port \in {80, 443}

\* line 116
IsDefaultPort(scheme, port) ==
    (scheme = "http" /\ port = 80) \/ (scheme = "https" /\ port = 443)

\* lines 114-118: '{scheme}://{host}{port}{path}'
FormatUrl(scheme, host, port, path) ==
    <<scheme, ":", "/", "/", host>>
        \o (IF IsDefaultPort(scheme, port) THEN <<>> ELSE <<":", ToString(port)>>)
        \o path

\* parse.urlparse of scheme://...: the netloc runs to the first of / ? #,
\* the fragment follows the first #, the query the first ? before it, and
\* the params the first ; of the last path segment
urlparse(u) ==
    LET rest == SubSeq(u, 5, Len(u))
        n == Find(rest, {"/", "?", "#"}, 1)
        netloc == IF n = 0 THEN rest ELSE SubSeq(rest, 1, n - 1)
        tail == IF n = 0 THEN <<>> ELSE SubSeq(rest, n, Len(rest))
        h == Find(tail, {"#"}, 1)
        nofrag == Before(tail, h)
        q == Find(nofrag, {"?"}, 1)
        pathparams == Before(nofrag, q)
        semi == Find(pathparams, {";"}, RFind(pathparams, "/") + 1)
    IN  [scheme |-> u[1], netloc |-> netloc,
         path |-> Before(pathparams, semi), params |-> After(pathparams, semi),
         query |-> After(nofrag, q), fragment |-> After(tail, h)]

\* parse.urlunparse of (scheme, netloc, path, params, None, fragment)
urlunparse(p) ==
    LET withparams == IF p.params # <<>> THEN p.path \o <<";">> \o p.params
                      ELSE p.path
        slashed == IF withparams # <<>> /\ withparams[1] # "/"
                   THEN <<"/">> \o withparams ELSE withparams
    IN  <<p.scheme, ":", "/", "/">> \o p.netloc \o slashed
           \o (IF p.fragment # <<>> THEN <<"#">> \o p.fragment ELSE <<>>)

\* lines 112-134: the tags set_tag leaves on the span
UrlTags(scheme, host, port, path, tqs) ==
    LET parsed == urlparse(FormatUrl(scheme, host, port, path))
        sanitized_url == urlunparse(parsed)
    IN  [url |-> sanitized_url, has_query |-> tqs,
         query |-> IF tqs THEN parsed.query ELSE <<>>]

\* A traced putrequest(method, path) on a connection of any scheme, host and
\* port, under either setting of trace_query_string
UrlInit ==
    /\ patched = TRUE
    /\ wrapped = [m \in Methods |-> 1]
    /\ conn = NoConn
    /\ spans = <<>>
    /\ last = Quiet("start")
    /\ faults = 0
    /\ url \in [scheme : Schemes, host : Hosts, port : UrlPorts, path : Paths,
                tqs : BOOLEAN, done : {FALSE}, tags : {<<>>}]
    /\ threads = [t \in Threads |-> Idle]
    /\ overlap = FALSE

SetUrlTags ==
    /\ ~url.done
    /\ url' = [url EXCEPT !.done = TRUE,
                  !.tags = UrlTags(url.scheme, url.host, url.port, url.path, url.tqs)]
    /\ UNCHANGED <<patched, wrapped, conn, spans, last, faults, threads, overlap>>

UrlNext == SetUrlTags

UrlSpec == UrlInit /\ [][UrlNext]_vars

\* ------------------------------------- patch() and unpatch(), step by step
(* Threads run patch() and unpatch() with no lock: the flag test, the flag *)
(* write and each setattr statement (each _u call) is a step of its own,   *)
(* and steps of different threads interleave.                              *)
MethodOrder == <<"__init__", "getresponse", "request", "putrequest", "putheader">>

\* the flag test is skipped
AlreadyPatched_never(flag) == FALSE

\* lines 179, 198: getattr(httplib, '__datadog_patch', False)
AlreadyPatched(flag) == flag

Busy(t) == threads[t].pc # "idle"

\* the thread enters the body of patch() or unpatch()
Enter(t, pc) ==
    /\ threads' = [threads EXCEPT ![t] = [pc |-> pc, i |-> 0]]
    /\ overlap' = (overlap \/ \E o \in Threads \ {t} : Busy(o))

\* the thread has done statement i of the five and goes on, or returns
Advance(t) ==
    threads' = [threads EXCEPT ![t] =
                   IF threads[t].i = Len(MethodOrder) THEN Idle
                   ELSE [threads[t] EXCEPT !.i = @ + 1]]

\* lines 179-180: `if getattr(httplib, '__datadog_patch', False): return`
PatchCheck(t) ==
    /\ threads[t].pc = "idle"
    /\ IF AlreadyPatched(patched)
       THEN UNCHANGED <<threads, overlap>>
       ELSE Enter(t, "patch_set")
    /\ UNCHANGED <<patched, wrapped, conn, spans, last, faults, url>>

\* line 181: setattr(httplib, '__datadog_patch', True)
PatchSetFlag(t) ==
    /\ threads[t].pc = "patch_set"
    /\ patched' = TRUE
    /\ threads' = [threads EXCEPT ![t] = [pc |-> "wrap", i |-> 1]]
    /\ UNCHANGED <<wrapped, conn, spans, last, faults, url, overlap>>

\* lines 184-193, one statement: setattr(HTTPConnection, m, FunctionWrapper(...))
Wrap(t) ==
    LET m == MethodOrder[threads[t].i]
    IN  /\ threads[t].pc = "wrap"
        /\ wrapped[m] + 1 <= MaxDepth
        /\ wrapped' = wrap(wrapped, m)
        /\ Advance(t)
        /\ UNCHANGED <<patched, conn, spans, last, faults, url, overlap>>

\* lines 198-199: `if not getattr(httplib, '__datadog_patch', False): return`
UnpatchCheck(t) ==
    /\ threads[t].pc = "idle"
    /\ IF ~AlreadyPatched(patched)
       THEN UNCHANGED <<threads, overlap>>
       ELSE Enter(t, "unpatch_set")
    /\ UNCHANGED <<patched, wrapped, conn, spans, last, faults, url>>

\* line 200: setattr(httplib, '__datadog_patch', False)
UnpatchSetFlag(t) ==
    /\ threads[t].pc = "unpatch_set"
    /\ patched' = FALSE
    /\ threads' = [threads EXCEPT ![t] = [pc |-> "unwrap", i |-> 1]]
    /\ UNCHANGED <<wrapped, conn, spans, last, faults, url, overlap>>

\* lines 202-206, one statement: _u(httplib.HTTPConnection, m)
Unwrap(t) ==
    /\ threads[t].pc = "unwrap"
    /\ wrapped' = unwrap(wrapped, MethodOrder[threads[t].i])
    /\ Advance(t)
    /\ UNCHANGED <<patched, conn, spans, last, faults, url, overlap>>

ConcNext ==
    \E t \in Threads :
        \/ PatchCheck(t)
        \/ PatchSetFlag(t)
        \/ Wrap(t)
        \/ UnpatchCheck(t)
        \/ UnpatchSetFlag(t)
        \/ Unwrap(t)

ConcSpec == Init /\ [][ConcNext]_vars

\* ================================================================ claims
Calls == {"request", "putrequest", "putheader", "getresponse"}
SpanIds == 1..Len(spans)

\* The wrapper of m ran on the last call and did not take its skip path
Traced(m) ==
    /\ wrapped[m] > 0
    /\ IF m = "getresponse" THEN conn.pin = "on" ELSE ~should_skip_request(conn)

\* C1: finish() is invoked exactly once on the span of a request cycle: never
\* twice on any span, and once when the cycle has ended (getresponse()
\* completed, or the wrapped request()/putrequest() raised).
C1_FinishExactlyOnce ==
    /\ \A i \in SpanIds : spans[i].fin <= 1
    /\ (last.op = "getresponse" /\ Traced("getresponse") /\ last.pre # 0)
          => spans[last.pre].fin = 1
    /\ (last.op \in {"request", "putrequest"} /\ last.res = "raise"
          /\ Traced(last.op))
          => (conn.span # 0 /\ spans[conn.span].fin = 1)

\* C2: at most one span of the connection is unfinished at a time.
C2_AtMostOneOpenSpan ==
    Cardinality({i \in SpanIds : spans[i].fin = 0}) <= 1

\* C3: whatever instrumentation step fails, the wrapped method is invoked
\* exactly once and the caller observes exactly its return value or exception.
C3_InstrumentationSwallowed ==
    last.op \in Calls => (last.inv = 1 /\ last.res = last.fres)

\* C4: a finished span has its error flag set if and only if a wrapped call
\* of its cycle raised or the response status is a server error (>= 500).
C4_ErrorIffRaisedOr5xx ==
    \A i \in SpanIds :
        spans[i].fin >= 1 =>
            (spans[i].error = 1 <=> (spans[i].raised \/ spans[i].status >= 500))

\* C5: _datadog_span is absent after getresponse() completes and after the
\* wrapped request() or putrequest() raises.
C5_AttributeRemoved ==
    /\ (last.op = "getresponse" /\ Traced("getresponse")) => conn.span = 0
    /\ (last.op \in {"request", "putrequest"} /\ last.res = "raise")
          => conn.span = 0

\* C6: every traced cycle produces exactly one new span: request() opens one,
\* and a putrequest() that returns either opens one or reuses the span of
\* the cycle in flight, never a span that was finished before.
C6_OneSpanPerCycle ==
    /\ (last.op = "request" /\ Traced("request")) => last.new = 1
    /\ (last.op = "putrequest" /\ Traced("putrequest") /\ last.res = "ok")
          => \/ last.new = 1
             \/ last.new = 0 /\ last.pre # 0 /\ spans[last.pre].fin = 0

\* C7: patch() and unpatch() are idempotent, the patched flag is true exactly
\* when the five methods are wrapped, no method is wrapped twice, and a traced
\* request() yields one span.
C7_PatchIdempotent ==
    LET p == [patched |-> patched, wrapped |-> wrapped]
    IN  /\ patch(patch(p)) = patch(p)
        /\ unpatch(unpatch(p)) = unpatch(p)
        /\ \A m \in Methods : wrapped[m] = IF patched THEN 1 ELSE 0
        /\ (last.op = "patch" /\ last.res = "unchanged") => patched
        /\ (last.op = "unpatch" /\ last.res = "unchanged") => ~patched
        /\ (last.op = "request" /\ patched /\ ~should_skip_request(conn))
              => last.new = 1

\* patch() was called again while patched, with spans already traced
C7_Witness ==
    /\ last.op = "patch" /\ last.res = "unchanged"
    /\ patched /\ Len(spans) >= 1

\* C8: while unpatched, no call on a connection opens a span, also on a
\* connection that got an enabled Pin while the patch was applied.
C8_NoSpansAfterUnpatch ==
    (~patched /\ last.op \in Calls) => last.new = 0

\* request() after unpatch() on a connection traced before: no new span
C8_Witness ==
    /\ ~patched /\ last.op = "request" /\ last.new = 0
    /\ conn.pin = "on" /\ ~should_skip_request(conn) /\ Len(spans) >= 1

\* C9: a traced request() hands the wrapped request the caller's headers with
\* the context of the span it has just opened injected if distributed_tracing
\* is enabled in the connection's configuration, and unmodified if it is not.
C9_InjectIffDistributed ==
    (last.op = "request" /\ Traced("request")) =>
        IF conn.dist
        THEN /\ last.new = 1
             /\ last.fwd.inj = Len(spans)
             /\ last.fwd.shape = IF last.shape = "positional"
                                 THEN "positional" ELSE "keyword"
        ELSE last.fwd = [shape |-> last.shape, inj |-> 0]

\* a request() with distributed tracing on got the new span's context injected
C9_Witness ==
    /\ last.op = "request" /\ Traced("request") /\ conn.dist
    /\ last.fwd.inj = Len(spans) /\ last.fwd.inj # 0 /\ last.shape = "absent"

\* C10: request() or putrequest() on a connection with no Pin, a disabled Pin
\* or the agent's host and port opens no span, leaves _datadog_span as it
\* was, and forwards the call once with the caller's arguments.
C10_SkipForwardsUnchanged ==
    (/\ last.op \in {"request", "putrequest"}
     /\ \/ conn.pin = "none"
        \/ conn.pin = "off"
        \/ conn.host = api.hostname /\ conn.port = api.port)
    => /\ last.new = 0
       /\ conn.span = last.pre
       /\ last.inv = 1 /\ last.res = last.fres
       /\ last.op = "request" => last.fwd = [shape |-> last.shape, inj |-> 0]

\* a patched request() with an enabled Pin to the agent itself was forwarded
C10_Witness ==
    /\ last.op = "request" /\ wrapped["request"] = 1
    /\ conn.pin = "on" /\ conn.host = api.hostname /\ conn.port = api.port
    /\ last.new = 0 /\ last.inv = 1 /\ last.shape = "keyword"

\* scheme://host[:port], the port left out exactly when it is the scheme's default
UrlPrefix ==
    <<url.scheme, ":", "/", "/", url.host>>
       \o (IF (url.scheme = "http" /\ url.port = 80)
              \/ (url.scheme = "https" /\ url.port = 443)
           THEN <<>> ELSE <<":", ToString(url.port)>>)

\* the path without its query string: the first ? before any #, up to that #
StripQuery(path) ==
    LET h == Find(path, {"#"}, 1)
        q == Find(Before(path, h), {"?"}, 1)
    IN  IF q = 0 THEN path
        ELSE Before(path, q) \o (IF h = 0 THEN <<>> ELSE SubSeq(path, h, Len(path)))

\* the path without delimiters that delimit nothing: a # with no fragment
\* after it, and a ; that ends the last path segment
StripEmpty(path) ==
    LET h == Find(path, {"#"}, 1)
        body == Before(path, h)
        slash == Find(body, {"/"}, 1)
        semi == IF slash = 0 THEN 0 ELSE Find(body, {";"}, RFind(body, "/") + 1)
        body1 == IF semi # 0 /\ semi = Len(body) THEN Before(body, semi) ELSE body
    IN  IF h = 0 THEN body1
        ELSE IF h = Len(path) THEN body1
        ELSE body1 \o SubSeq(path, h, Len(path))

QueryTagged ==
    /\ url.tags.has_query <=> url.tqs
    /\ url.tqs => url.tags.query = urlparse(UrlPrefix \o url.path).query

\* C11 (as stated): the URL tag is scheme://host[:port]path with the query
\* string removed, the port left out exactly when it is the scheme's default,
\* and the query string is tagged if and only if trace_query_string is on.
C11_UrlTagAsStated ==
    url.done =>
        /\ url.tags.url = UrlPrefix \o StripQuery(url.path)
        /\ QueryTagged

\* C11 (amended): as stated, except that the path is also stripped of
\* delimiters that delimit nothing (a # with an empty fragment, a ; with empty
\* params at the end of the last path segment).
C11_UrlTagNormalised ==
    url.done =>
        /\ url.tags.url = UrlPrefix \o StripEmpty(StripQuery(url.path))
        /\ QueryTagged

\* an https URL on port 80 with a query and a fragment was tagged
C11_Witness ==
    /\ url.done /\ url.scheme = "https" /\ url.port = 80 /\ url.tqs
    /\ url.path = <<"/", "?", "a">>
    /\ url.tags.url = <<"https", ":", "/", "/", url.host, ":", "80", "/">>
    /\ url.tags.query = <<"a">>

\* C12: a finished span is never touched again: no wrapper tags a span,
\* stores headers on it, sets its error or exception info, or takes it as the
\* span of a putrequest(), putheader() or getresponse() call, after finish()
\* was called on it.
C12_FinishedNeverTouched == ~last.late

Quiescent == \A t \in Threads : ~Busy(t)

FlagMatchesWrapping ==
    /\ \A m \in Methods : wrapped[m] <= 1
    /\ Quiescent => \A m \in Methods : wrapped[m] = IF patched THEN 1 ELSE 0

\* C13 (as stated): under any interleaving of concurrent patch() and unpatch()
\* calls, each method is wrapped at most once, and in every quiescent state
\* the patched flag is true exactly when the methods are wrapped.
C13_AnyInterleaving == FlagMatchesWrapping

\* C13 (amended): the same holds as long as no patch() or unpatch() call has
\* begun while another one was in progress.
C13_NoOverlap == ~overlap => FlagMatchesWrapping

\* threads have patched and unpatched in turn, never at once, and the
\* methods are wrapped once with no call in progress
C13_Witness ==
    /\ ~overlap /\ Quiescent /\ patched
    /\ \A m \in Methods : wrapped[m] = 1
====
